---- MODULE Spec2Model ----
(***************************************************************************)
(* Model of src/OLS_BackwardsSelection.py: class OLS_BackwardsSelection,   *)
(* a p-value driven backward elimination around statsmodels' OLS fitter.   *)
(*                                                                         *)
(* Abstractions.  A matrix is the record [nobs, cols]: its number of rows  *)
(* and the sequence of the ORIGINAL column identifiers it still holds, so  *)
(* that deleting a column by position is a real positional deletion.  The  *)
(* target vector is its length.  A fit result holds, per column of the     *)
(* matrix it was fitted on, a coefficient (represented by the identifier   *)
(* of the column it multiplies) and a p-value.  Floats are integers in     *)
(* hundredths; the fitter is taken to return finite numbers.  An attribute *)
(* that may be None is the empty sequence, a value v is <<v>>.             *)
(***************************************************************************)
EXTENDS Integers, Sequences, FiniteSets, TLC

VARIABLES
  modelX,        \* self.modelX        : matrix
  modelY,        \* self.modelY        : length of the target vector
  variables,     \* self.variables     : list of column identifiers
  modelXBack,    \* self.modelXBack    : None or matrix
  model,         \* self.model         : None or [endog, exog]
  results,       \* self.results       : None or fit result
  coef,          \* self.coef          : None or coefficients
  Rsquared,      \* self.Rsquared      : None or number
  Rsquared_adj,  \* self.Rsquared_adj  : None or number
  pc,            \* "idle" or "while" (inside backwardSelect, at the loop test)
  criteria,      \* backwardSelect argument
  maxSteps,      \* backwardSelect argument
  iteration,     \* backwardSelect local
  call,          \* the method the caller invoked last
  raised,        \* exception that ended the last call, or "none"
  returned,      \* value returned by the last predict, or None
  erred          \* history: some call on this object has raised

vars == <<modelX, modelY, variables, modelXBack, model, results, coef,
          Rsquared, Rsquared_adj, pc, criteria, maxSteps, iteration,
          call, raised, returned, erred>>

self == <<modelX, modelY, variables, modelXBack, model, results, coef,
          Rsquared, Rsquared_adj>>

----------------------------------------------------------------------------
\* Bounds of the exploration.
MaxCols == 3
MaxStepsArg == 1

\* Program constant: the goodness-of-fit threshold 0.7, in hundredths.
RsqThreshold == 70

None == <<>>
Some(v) == <<v>>
Val(o) == o[1]

\* p-values the fitter may report and thresholds the caller may pass.
PValues == {10, 90}
Criterias == {5, 50}

Range(s) == {s[i] : i \in 1..Len(s)}
Iota(n) == [i \in 1..n |-> i]

\* Positional deletion; colNum is a 0-based Python index.
DeleteAt(s, colNum) ==
  [i \in 1..(Len(s) - 1) |-> IF i <= colNum THEN s[i] ELSE s[i + 1]]

\* np.delete(m, colNum, axis=1)
NpDelete(m, colNum) == [nobs |-> m.nobs, cols |-> DeleteAt(m.cols, colNum)]

\* sum(pvalues > criteria)
CountGt(pv, c) == Cardinality({i \in 1..Len(pv) : pv[i] > c})

\* Python's builtin max over a non-empty iterable: keep the first item,
\* replace it whenever a later item compares greater.
RECURSIVE PyMaxFrom(_, _, _)
PyMaxFrom(pv, i, best) ==
  IF i > Len(pv) THEN best
  ELSE PyMaxFrom(pv, i + 1, IF pv[i] > best THEN pv[i] ELSE best)
PyMax(pv) == PyMaxFrom(pv, 2, pv[1])

\* np.where(pvalues == max(pvalues))[0] : the 0-based indices, ascending.
WhereMax(pv) == {i - 1 : i \in {j \in 1..Len(pv) : pv[j] = PyMax(pv)}}

Min(S) == CHOOSE x \in S : \A y \in S : x <= y

----------------------------------------------------------------------------
\* The external fitter, sm.OLS(y, x).fit().  The goodness-of-fit pair is
\* (rsquared, rsquared_adj); the adjusted value never exceeds the plain one.
RsqPairs == {<<70, 50>>, <<85, 70>>, <<85, 85>>}

FitResults(x) ==
  {[params |-> x.cols, pvalues |-> pv, rsquared |-> r[1], rsquared_adj |-> r[2]] :
     pv \in [1..Len(x.cols) -> PValues], r \in RsqPairs}

\* What a fit can do: raise before self.model is assigned (the None test of
\* line 28 on an array, or sm.OLS rejecting the shapes), raise inside fit()
\* once self.model is assigned, or return a result.  Arrays of different
\* lengths are always rejected by sm.OLS.
FitOutcomes(y, x) ==
  {[kind |-> "ValueError"]} \cup
  (IF y = x.nobs
   THEN {[kind |-> "LinAlgError"]} \cup {[kind |-> "ok", res |-> r] : r \in FitResults(x)}
   ELSE {})

\* modelOLS(self, y=None, x=None)
modelOLS(y, x) ==
  LET useSelf == x = None \/ y = None
      xx == IF useSelf THEN modelX ELSE Val(x)
      yy == IF useSelf THEN modelY ELSE Val(y)
  IN  \E out \in FitOutcomes(yy, xx) :
        /\ raised' = IF out.kind = "ok" THEN "none" ELSE out.kind
        /\ model' = IF out.kind = "ValueError" THEN model
                    ELSE Some([endog |-> yy, exog |-> xx])
        /\ IF out.kind = "ok"
           THEN /\ results' = Some(out.res)
                /\ coef' = Some(out.res.params)
                /\ Rsquared' = Some(out.res.rsquared)
                /\ Rsquared_adj' = Some(out.res.rsquared_adj)
           ELSE UNCHANGED <<results, coef, Rsquared, Rsquared_adj>>

\* Does _removeColumn(colNum) raise IndexError (del on the list, line 40, or
\* np.delete on the array, line 41)?
_removeColumnRaises(colNum) ==
  \/ colNum >= Len(variables)
  \/ colNum >= Len(Val(modelXBack).cols)

_removeColumn_onOriginal(colNum) ==
  /\ variables' = IF colNum >= Len(variables) THEN variables
                  ELSE DeleteAt(variables, colNum)
  /\ modelXBack' = IF _removeColumnRaises(colNum) THEN modelXBack
                   ELSE Some(NpDelete(Val(modelXBack), colNum))
  /\ modelX' = IF _removeColumnRaises(colNum) THEN modelX
               ELSE NpDelete(modelX, colNum)
  /\ UNCHANGED modelY

\* _removeColumn(self, colNum): the registry first, then the working matrix.
_removeColumn(colNum) ==
  /\ variables' = IF colNum >= Len(variables) THEN variables
                  ELSE DeleteAt(variables, colNum)
  /\ modelXBack' = IF _removeColumnRaises(colNum) THEN modelXBack
                   ELSE Some(NpDelete(Val(modelXBack), colNum))
  /\ UNCHANGED <<modelX, modelY>>

WhileTest_silentNone ==
  IF results = None THEN "exit"
  ELSE IF /\ CountGt(Val(results).pvalues, criteria) # 0
          /\ maxSteps >= iteration
          /\ Val(Rsquared) > RsqThreshold
       THEN "enter" ELSE "exit"

WhileTest_ge ==
  IF results = None THEN "AttributeError"
  ELSE IF /\ CountGt(Val(results).pvalues, criteria) # 0
          /\ maxSteps >= iteration
          /\ Val(Rsquared) >= RsqThreshold
       THEN "enter" ELSE "exit"

\* The loop test of backwardSelect (line 48): reading .pvalues of a None
\* result raises AttributeError; otherwise the three conditions decide.
WhileTest ==
  IF results = None THEN "AttributeError"
  ELSE IF /\ CountGt(Val(results).pvalues, criteria) # 0
          /\ maxSteps >= iteration
          /\ Val(Rsquared) > RsqThreshold
       THEN "enter" ELSE "exit"

----------------------------------------------------------------------------
\* Shapes handed to the constructor: exog has NObs rows, endog any of these.
NObs == 2
TargetLengths == {NObs, NObs + 1}

\* __init__(self, exog, endog): no check relates endog to exog.
Init ==
  \E m \in 1..MaxCols, ny \in TargetLengths :
    /\ modelX = [nobs |-> NObs, cols |-> Iota(m)]
    /\ modelY = ny
    /\ variables = Iota(m)
    /\ modelXBack = None
    /\ model = None
    /\ results = None
    /\ coef = None
    /\ Rsquared = None
    /\ Rsquared_adj = None
    /\ pc = "idle"
    /\ criteria = 5
    /\ maxSteps = 0
    /\ iteration = 0
    /\ call = "__init__"
    /\ raised = "none"
    /\ returned = None
    /\ erred = FALSE

\* The caller's modelOLS(): the full fit.
FitFullModel ==
  /\ pc = "idle"
  /\ call' = "modelOLS"
  /\ returned' = None
  /\ modelOLS(None, None)
  /\ erred' = (erred \/ raised' # "none")
  /\ UNCHANGED <<modelX, modelY, variables, modelXBack, pc, criteria,
                 maxSteps, iteration>>

\* backwardSelect(criteria, maxSteps), lines 46-47: up to the first loop test.
BackwardSelect ==
  /\ pc = "idle"
  /\ \E c \in Criterias, ms \in 0..MaxStepsArg :
       /\ criteria' = c
       /\ maxSteps' = ms
  /\ call' = "backwardSelect"
  /\ returned' = None
  /\ raised' = "none"
  /\ modelXBack' = Some(modelX)
  /\ iteration' = 0
  /\ pc' = "while"
  /\ UNCHANGED <<modelX, modelY, variables, model, results, coef, Rsquared,
                 Rsquared_adj, erred>>

\* The loop test raises: backwardSelect ends with the exception.
WhileRaise ==
  /\ pc = "while"
  /\ WhileTest = "AttributeError"
  /\ raised' = "AttributeError"
  /\ erred' = TRUE
  /\ pc' = "idle"
  /\ UNCHANGED <<self, criteria, maxSteps, iteration, call, returned>>

\* The loop test is false: backwardSelect returns.
WhileExit ==
  /\ pc = "while"
  /\ WhileTest = "exit"
  /\ pc' = "idle"
  /\ UNCHANGED <<self, criteria, maxSteps, iteration, call, raised, returned, erred>>

WhileBody_rollback ==
  /\ pc = "while"
  /\ WhileTest = "enter"
  /\ LET indexRemove == Min(WhereMax(Val(results).pvalues)) IN
       \E out \in FitOutcomes(modelY, NpDelete(Val(modelXBack), indexRemove)) :
         /\ raised' = IF out.kind = "ok" THEN "none" ELSE out.kind
         /\ IF out.kind = "ok"
            THEN /\ _removeColumn(indexRemove)
                 /\ model' = Some([endog |-> modelY, exog |-> Val(modelXBack')])
                 /\ results' = Some(out.res)
                 /\ coef' = Some(out.res.params)
                 /\ Rsquared' = Some(out.res.rsquared)
                 /\ Rsquared_adj' = Some(out.res.rsquared_adj)
            ELSE UNCHANGED self
         /\ iteration' = IF raised' = "none" THEN iteration + 1 ELSE iteration
         /\ pc' = IF raised' = "none" THEN "while" ELSE "idle"
         /\ erred' = (erred \/ raised' # "none")
  /\ UNCHANGED <<criteria, maxSteps, call, returned>>

\* One pass of the loop body, lines 49-53: pick the first index of the
\* largest p-value, remove that column, refit, count the pass.  An exception
\* of _removeColumn or of the refit ends backwardSelect where it stands.
WhileBody ==
  /\ pc = "while"
  /\ WhileTest = "enter"
  /\ LET indexRemove == Min(WhereMax(Val(results).pvalues)) IN
       /\ _removeColumn(indexRemove)
       /\ IF _removeColumnRaises(indexRemove)
          THEN /\ raised' = "IndexError"
               /\ UNCHANGED <<model, results, coef, Rsquared, Rsquared_adj>>
          ELSE modelOLS(Some(modelY), modelXBack')
       /\ iteration' = IF raised' = "none" THEN iteration + 1 ELSE iteration
       /\ pc' = IF raised' = "none" THEN "while" ELSE "idle"
       /\ erred' = (erred \/ raised' # "none")
  /\ UNCHANGED <<criteria, maxSteps, call, returned>>

\* Column sets of the caller's test frames: the original columns, those and
\* one more, and the original ones without the first.
TestFrames == {1..MaxCols, 1..(MaxCols + 1), 2..MaxCols}

predict_defaultsWhenNone(exogTest) ==
  /\ pc = "idle"
  /\ call' = "predict"
  /\ IF results = None
     THEN raised' = "none" /\ returned' = Some(<<>>)
     ELSE IF ~ (Range(variables) \subseteq exogTest)
     THEN raised' = "KeyError" /\ returned' = None
     ELSE IF Len(variables) # Len(Val(results).params)
     THEN raised' = "ValueError" /\ returned' = None
     ELSE /\ raised' = "none"
          /\ returned' = Some([i \in 1..Len(variables) |->
                                 <<Val(results).params[i], variables[i]>>])
  /\ erred' = (erred \/ raised' # "none")
  /\ UNCHANGED <<self, pc, criteria, maxSteps, iteration>>

\* predict(self, exogTest): exogTest is the set of column names of the frame.
\* returned pairs each coefficient with the input column it multiplies.
predict(exogTest) ==
  /\ pc = "idle"
  /\ call' = "predict"
  /\ IF results = None
     THEN raised' = "AttributeError" /\ returned' = None
     ELSE IF ~ (Range(variables) \subseteq exogTest)
     THEN raised' = "KeyError" /\ returned' = None
     ELSE IF Len(variables) # Len(Val(results).params)
     THEN raised' = "ValueError" /\ returned' = None
     ELSE /\ raised' = "none"
          /\ returned' = Some([i \in 1..Len(variables) |->
                                 <<Val(results).params[i], variables[i]>>])
  /\ erred' = (erred \/ raised' # "none")
  /\ UNCHANGED <<self, pc, criteria, maxSteps, iteration>>

Predict == \E exogTest \in TestFrames : predict(exogTest)

Next ==
  \/ FitFullModel
  \/ BackwardSelect
  \/ WhileRaise
  \/ WhileExit
  \/ WhileBody
  \/ Predict

Spec == Init /\ [][Next]_vars

TypeOK ==
  /\ pc \in {"idle", "while"}
  /\ iteration \in 0..(MaxStepsArg + 1)
  /\ Len(variables) <= MaxCols
  /\ call \in {"__init__", "modelOLS", "backwardSelect", "predict"}
  /\ raised \in {"none", "AttributeError", "IndexError", "KeyError",
                  "ValueError", "LinAlgError"}
  /\ (results = None) = (Rsquared = None)
  /\ (results = None) = (coef = None)

FitterErrors == {"ValueError", "LinAlgError"}

\* Is position i of the p-values pv the first position of their maximum?
IsFirstMax(pv, i) ==
  /\ \A j \in 1..Len(pv) : pv[j] <= pv[i]
  /\ \A j \in 1..(i - 1) : pv[j] < pv[i]

----------------------------------------------------------------------------
\* C1: a call of select performs at most max_iterations elimination steps:
\* the count of completed passes never exceeds the maxSteps argument.
C1_AtMostMaxSteps == iteration <= maxSteps

\* C2 as stated: when the ADJUSTED R-squared of the stored fit is <= 0.7 at
\* the first loop test of select, the call ends there, with no elimination
\* step and the registry unchanged.
C2_AdjustedStopsSelect ==
  [][(pc = "while" /\ iteration = 0 /\ results # None
        /\ Val(Rsquared_adj) <= RsqThreshold)
      => (pc' = "idle" /\ iteration' = 0 /\ raised' = "none"
            /\ variables' = variables /\ modelXBack' = modelXBack)]_vars

\* C2 amended: when the UNADJUSTED R-squared of the stored fit is <= 0.7 at
\* the first loop test of select, the call ends there, with no elimination
\* step and the registry unchanged, whatever the p-values, the threshold and
\* maxSteps are.
C2_UnadjustedStopsSelect ==
  [][(pc = "while" /\ iteration = 0 /\ results # None
        /\ Val(Rsquared) <= RsqThreshold)
      => (pc' = "idle" /\ iteration' = 0 /\ raised' = "none"
            /\ variables' = variables /\ modelXBack' = modelXBack)]_vars

\* A select that returned at its first loop test although a p-value exceeds
\* the threshold and the step budget allows a pass: only R-squared stopped it.
C2_Witness ==
  /\ pc = "idle" /\ call = "backwardSelect" /\ raised = "none"
  /\ iteration = 0 /\ results # None
  /\ Val(Rsquared) <= RsqThreshold
  /\ CountGt(Val(results).pvalues, criteria) # 0
  /\ maxSteps >= 1
  /\ variables = modelX.cols

\* C3: once the working matrix exists, the registry has as many identifiers
\* as the working matrix has columns.
C3_RegistryMatchesMatrix ==
  modelXBack # None => Len(variables) = Len(Val(modelXBack).cols)

\* C4: in every elimination step the identifier that leaves the registry is
\* that of a column whose p-value in the latest fit result is the maximum,
\* and the first such column of that fit.
C4_RemovesFirstMaxPValue ==
  [][Len(variables') < Len(variables)
      => \E i \in 1..Len(Val(results).params) :
           /\ Val(results).params[i] \in Range(variables)
           /\ Val(results).params[i] \notin Range(variables')
           /\ IsFirstMax(Val(results).pvalues, i)]_vars

\* C5: every call of select starts, at iteration 0, from a working matrix
\* equal to the full predictor matrix and a registry equal to all the
\* original identifiers.
C5_SelectStartsFromOriginals ==
  (pc = "while" /\ iteration = 0)
    => (modelXBack = Some(modelX) /\ variables = modelX.cols)

\* C6 as stated: select or predict on an object without a fit result ends
\* with a NotFitted error, no elimination step and no prediction.
C6_NotFittedRaised ==
  (pc = "idle" /\ call \in {"backwardSelect", "predict"} /\ results = None)
    => (raised = "NotFitted" /\ returned = None /\ variables = modelX.cols)

\* C6 amended: select or predict on an object without a fit result ends
\* with an AttributeError raised to the caller, no elimination step and no
\* prediction.
C6_AttributeErrorRaised ==
  (pc = "idle" /\ call \in {"backwardSelect", "predict"} /\ results = None)
    => (raised = "AttributeError" /\ returned = None /\ variables = modelX.cols)

\* A select that ended on an object that was never fitted.
C6_Witness ==
  /\ pc = "idle" /\ call = "backwardSelect" /\ results = None
  /\ raised = "AttributeError" /\ modelXBack = Some(modelX)

\* C7: no object holds a predictor matrix and a target vector of different
\* numbers of observations.
C7_NoMismatchedSelector == modelY = modelX.nobs

\* C8: the predictor matrix and the target vector stored at construction
\* are never changed by any call.
C8_OriginalsNeverChange == [][modelX' = modelX /\ modelY' = modelY]_vars

\* A prediction made after elimination steps shrank the working matrix.
C8_Witness ==
  /\ call = "predict" /\ returned # None
  /\ Len(variables) < Len(modelX.cols)
  /\ modelXBack # None /\ modelXBack # Some(modelX)

\* C9: after calls that all ended without error, the stored fit result has
\* one coefficient and one p-value per registry identifier, in registry
\* order.
C9_FitAlignedWithRegistry ==
  (pc = "idle" /\ ~erred /\ results # None)
    => /\ Val(results).params = variables
       /\ Val(coef) = variables
       /\ Len(Val(results).pvalues) = Len(variables)

\* C10: when the refit of an elimination step fails, select ends with that
\* error, the column chosen in the step (first position of the largest
\* p-value) stays removed from both the registry and the working matrix,
\* and the stored fit result is not replaced.
C10_FailedRefitKeepsShrunkState ==
  [][(pc = "while" /\ raised' \in FitterErrors)
      => /\ pc' = "idle"
         /\ iteration' = iteration
         /\ results' = results
         /\ \E i \in 1..Len(Val(results).pvalues) :
              /\ IsFirstMax(Val(results).pvalues, i)
              /\ variables' = DeleteAt(variables, i - 1)
              /\ modelXBack' = Some(NpDelete(Val(modelXBack), i - 1))]_vars

\* A select that a failing refit ended: the working matrix has shrunk and
\* the stored fit result still is the one of the previous, wider matrix.
C10_Witness ==
  /\ pc = "idle" /\ call = "backwardSelect" /\ raised \in FitterErrors
  /\ results # None
  /\ Len(Val(results).params) = Len(Val(modelXBack).cols) + 1
  /\ Len(variables) < Len(modelX.cols)
====
